---- MODULE Spec2Model ----
(***************************************************************************)
(* Model of chipper's CHIP-8 virtual machine (src/vm/vm.rs): the VM and    *)
(* Registers structures, their constructors VM::new and Registers::new,    *)
(* and the loader load_rom.                                                *)
(*                                                                         *)
(* Arrays are functions over 0..N-1 (Rust indexing); a program (Vec) and   *)
(* EMULATOR_ROM are sequences, so element k of a slice is src[k + 1].      *)
(* Numbers are written in decimal; the hexadecimal of the source is given  *)
(* beside each constant.                                                   *)
(***************************************************************************)
EXTENDS Integers, Sequences, FiniteSets, TLC

(* ---------------------------- program constants ----------------------- *)

\* rom: [uint8; 0x1000] and memory: [uint8; 0x1000]
RomLen == 4096

\* video: [uint8; 0x440]
VideoLen == 1088

\* stack: [uint; 16]
StackLen == 16

\* keys: [bool; 16]
KeyCount == 16

\* regs.v: [uint8; 16]
VCount == 16

\* regs.r: [uint8; 8]
RCount == 8

\* the split point of vm.rom[..0x200] / vm.rom[0x200..]
ProgramBase == 512

\* if program.len() > 0x800
ProgramMax == 2048

(* ------------------------------- bounds -------------------------------- *)

\* programs of length 0..MaxSmallLen are tried
MaxSmallLen == 3

\* programs of length ProgramMax-MaxSlack .. ProgramMax+MaxSlack are tried
MaxSlack == 2

\* each length is tried with the byte patterns 0..MaxSeed
MaxSeed == 15

(* ------------------------------ the inputs ----------------------------- *)

\* The program whose byte k (from 0) is (seed + k) mod 256.
ProgramOf(len, seed) == [k \in 1..len |-> (seed + k - 1) % 256]

\* Lengths: the short programs, the ones around the size limit, and the one
\* length that fills rom[0x200..] exactly.
ProgramLens ==
    (0..MaxSmallLen)
    \cup ((ProgramMax - MaxSlack)..(ProgramMax + MaxSlack))
    \cup {RomLen - ProgramBase}

Programs == {ProgramOf(len, seed) : len \in ProgramLens, seed \in 0..MaxSeed}

(* -------------------------- crate::vm::rom ----------------------------- *)

\* use crate::vm::rom::EMULATOR_ROM: the 512 reserved font/interpreter
\* bytes.  Its contents are fixed; every byte is made non-zero here so that
\* a reserved byte is distinguishable from a zero-initialised one.
EMULATOR_ROM == [k \in 1..ProgramBase |-> ((k * 37) % 255) + 1]

(* ----------------------------- constructors ---------------------------- *)

\* The unit value `()` that VM::new gives to clock and cycles.
Unit == <<>>

Registers_new ==
    [ i  |-> 0,
      v  |-> [k \in 0..(VCount - 1) |-> 0],
      r  |-> [k \in 0..(RCount - 1) |-> 0],
      dt |-> 0,
      st |-> 0 ]

\* VM::new with the program counter left at zero instead of 0x200.
VM_new_pc0 ==
    [ rom      |-> [a \in 0..(RomLen - 1) |-> 0],
      rom_size |-> 0,
      memory   |-> [a \in 0..(RomLen - 1) |-> 0],
      video    |-> [a \in 0..(VideoLen - 1) |-> 0],
      stack    |-> [k \in 0..(StackLen - 1) |-> 0],
      sp       |-> 0,
      pc       |-> 0,
      regs     |-> Registers_new,
      clock    |-> Unit,
      cycles   |-> Unit,
      speed    |-> 700,
      keys     |-> [k \in 0..(KeyCount - 1) |-> FALSE],
      pitch    |-> 8 ]

\* VM::new with the stack pointer starting one past the full stack.
VM_new_sp17 ==
    [ rom      |-> [a \in 0..(RomLen - 1) |-> 0],
      rom_size |-> 0,
      memory   |-> [a \in 0..(RomLen - 1) |-> 0],
      video    |-> [a \in 0..(VideoLen - 1) |-> 0],
      stack    |-> [k \in 0..(StackLen - 1) |-> 0],
      sp       |-> StackLen + 1,
      pc       |-> ProgramBase,
      regs     |-> Registers_new,
      clock    |-> Unit,
      cycles   |-> Unit,
      speed    |-> 700,
      keys     |-> [k \in 0..(KeyCount - 1) |-> FALSE],
      pitch    |-> 8 ]

\* VM::new with a video buffer of 0x400 bytes: the 64 high-res rows without
\* the 4 guard rows.
VM_new_noguard ==
    [ rom      |-> [a \in 0..(RomLen - 1) |-> 0],
      rom_size |-> 0,
      memory   |-> [a \in 0..(RomLen - 1) |-> 0],
      video    |-> [a \in 0..(1024 - 1) |-> 0],
      stack    |-> [k \in 0..(StackLen - 1) |-> 0],
      sp       |-> 0,
      pc       |-> ProgramBase,
      regs     |-> Registers_new,
      clock    |-> Unit,
      cycles   |-> Unit,
      speed    |-> 700,
      keys     |-> [k \in 0..(KeyCount - 1) |-> FALSE],
      pitch    |-> 8 ]

VM_new ==
    [ rom      |-> [a \in 0..(RomLen - 1) |-> 0],
      rom_size |-> 0,
      memory   |-> [a \in 0..(RomLen - 1) |-> 0],
      video    |-> [a \in 0..(VideoLen - 1) |-> 0],
      stack    |-> [k \in 0..(StackLen - 1) |-> 0],
      sp       |-> 0,
      pc       |-> ProgramBase,
      regs     |-> Registers_new,
      clock    |-> Unit,
      cycles   |-> Unit,
      speed    |-> 700,
      keys     |-> [k \in 0..(KeyCount - 1) |-> FALSE],
      pitch    |-> 8 ]

(* -------------------------------- load_rom ----------------------------- *)

\* The value standing for "no VM": what the caller holds after Err or a panic.
NoVM == [none |-> TRUE]

\* slice::clone_from_slice panics unless the destination arr[lo..hi) and the
\* source have the same length.
CloneLenOk(lo, hi, src) == hi - lo = Len(src)

\* arr[lo..hi).clone_from_slice(&src), for lengths that agree.
CloneFromSlice(arr, lo, hi, src) ==
    [a \in DOMAIN arr |-> IF lo <= a /\ a < hi THEN src[a - lo + 1] ELSE arr[a]]

\* load_rom(program): how the call ends ("Ok", "Err" or "Panic") and the VM
\* it returns.
load_rom(program) ==
    IF Len(program) > ProgramMax
    THEN [tag |-> "Err", vm |-> NoVM]
    ELSE LET vm0 == [VM_new EXCEPT !.rom_size = Len(program)]
         IN  IF ~CloneLenOk(0, ProgramBase, EMULATOR_ROM)
             THEN [tag |-> "Panic", vm |-> NoVM]
             ELSE LET vm1 == [vm0 EXCEPT !.rom =
                                CloneFromSlice(@, 0, ProgramBase, EMULATOR_ROM)]
                  IN  IF ~CloneLenOk(ProgramBase, RomLen, program)
                      THEN [tag |-> "Panic", vm |-> NoVM]
                      ELSE [tag |-> "Ok",
                            vm  |-> [vm1 EXCEPT !.rom =
                                CloneFromSlice(@, ProgramBase, RomLen, program)]]

(* ------------------------------ the machine ---------------------------- *)

VARIABLES
    op,        \* the last call made: "none", "VM::new" or "load_rom"
    program,   \* the argument of the last load_rom call
    result,    \* how the last call ended: "none", "Ok", "Err", "Panic"
    vm         \* the VM the last call returned, or NoVM

vars == <<op, program, result, vm>>

Init ==
    /\ op = "none"
    /\ program = <<>>
    /\ result = "none"
    /\ vm = NoVM

\* A caller constructs a VM.
Construct ==
    /\ op' = "VM::new"
    /\ program' = <<>>
    /\ result' = "Ok"
    /\ vm' = VM_new

\* A caller loads the program p.
Load(p) ==
    /\ op' = "load_rom"
    /\ program' = p
    /\ result' = load_rom(p).tag
    /\ vm' = load_rom(p).vm

Next ==
    \/ Construct
    \/ \E p \in Programs : Load(p)

Spec == Init /\ [][Next]_vars

(* ------------------------------- the claims ---------------------------- *)

\* A call of load_rom with a program that fits (len <= 0x800) has ended.
LoadedValid == op = "load_rom" /\ Len(program) <= ProgramMax

\* The machine state that does not depend on the program is as VM::new and
\* Registers::new leave it.
Zeroed(m) ==
    /\ m.sp = 0
    /\ \A k \in 0..(StackLen - 1) : m.stack[k] = 0
    /\ m.regs.i = 0
    /\ \A k \in 0..(VCount - 1) : m.regs.v[k] = 0
    /\ \A k \in 0..(RCount - 1) : m.regs.r[k] = 0
    /\ m.regs.dt = 0
    /\ m.regs.st = 0
    /\ \A k \in 0..(KeyCount - 1) : m.keys[k] = FALSE
    /\ \A a \in 0..(VideoLen - 1) : m.video[a] = 0
    /\ m.pitch = 8
    /\ m.speed = 700

\* C1: load succeeds (returns a VM) for every program of length at most
\* 0x800, the empty program and exactly 0x800 bytes included, and fails with
\* ProgramTooLarge, returning no VM, for every program of 0x801 bytes or more.
C1_LoadContract ==
    op = "load_rom" =>
        IF Len(program) <= ProgramMax
        THEN result = "Ok" /\ vm # NoVM
        ELSE result = "Err" /\ vm = NoVM

\* C2: after load of a valid program the live memory holds the reserved
\* bytes at [0, 0x200) and the program at [0x200, 0x200+len), and is a copy
\* of rom.
C2_MemoryAfterLoad ==
    LoadedValid =>
        /\ result = "Ok"
        /\ \A a \in 0..(ProgramBase - 1) : vm.memory[a] = EMULATOR_ROM[a + 1]
        /\ \A k \in 1..Len(program) : vm.memory[ProgramBase + k - 1] = program[k]
        /\ vm.memory = vm.rom

\* C3: after load of a valid program the pristine rom is the 512 reserved
\* bytes, then the program bytes, then zeros up to 4096.
C3_RomAfterLoad ==
    LoadedValid =>
        /\ result = "Ok"
        /\ \A a \in 0..(RomLen - 1) :
              vm.rom[a] =
                 IF a < ProgramBase THEN EMULATOR_ROM[a + 1]
                 ELSE IF a < ProgramBase + Len(program)
                      THEN program[a - ProgramBase + 1]
                      ELSE 0

\* C4: every VM a caller gets, from construction or from a successful load,
\* has its program counter at 0x200.
C4_PcBeginsAt200 == result = "Ok" => vm.pc = 512

\* C4's case: a caller holds a freshly constructed VM.
C4_Witness == op = "VM::new" /\ result = "Ok" /\ vm # NoVM /\ vm.pc = 512

\* C6: in every reachable state of a VM the stack pointer is between 0 and
\* 16 and the stack has (no more than) 16 cells.
C6_SpInRange ==
    result = "Ok" =>
        /\ 0 <= vm.sp
        /\ vm.sp <= 16
        /\ Cardinality(DOMAIN vm.stack) <= 16

\* C6's case: a VM exists and its 16-cell stack is empty.
C6_Witness ==
    /\ result = "Ok"
    /\ vm.sp = 0
    /\ DOMAIN vm.stack = 0..15

\* C9: pitch is 8 or 16, and 8 in a freshly constructed VM; the video buffer
\* has 0x440 bytes, which is 64 rows of 16 bytes plus 4 guard rows; so every
\* offset row*pitch+col with 0 <= row < 68 and 0 <= col < pitch is inside
\* the buffer at either pitch.
C9_PitchAndVideo ==
    result = "Ok" =>
        /\ vm.pitch \in {8, 16}
        /\ (op = "VM::new" => vm.pitch = 8)
        /\ DOMAIN vm.video = 0..(1088 - 1)
        /\ Cardinality(DOMAIN vm.video) = 64 * 16 + 4 * 16
        /\ \A p \in {8, 16} : \A row \in 0..67 : \A col \in 0..(p - 1) :
              (row * p + col) \in DOMAIN vm.video

\* C9's case: a freshly constructed VM in low-res, whose last guard-row byte
\* at the high-res pitch is the last byte of the buffer.
C9_Witness ==
    /\ op = "VM::new"
    /\ result = "Ok"
    /\ vm.pitch = 8
    /\ (67 * 16 + 15) \in DOMAIN vm.video
    /\ (67 * 16 + 16) \notin DOMAIN vm.video

====
